---------------------------- MODULE Spec2Model ----------------------------
(***************************************************************************)
(* Item-response model with cheater detection (cheater.ipynb).             *)
(*                                                                         *)
(* Real numbers are fixed-point integers with three decimals: the integer  *)
(* x stands for x / SCALE.  Vectors are functions over 0..n-1 and the      *)
(* answer matrix is a function of rows, as the tensors of the notebook     *)
(* are indexed.                                                            *)
(***************************************************************************)
EXTENDS Integers, FiniteSets, Sequences, TLC

\* ------------------------------------------------------------------ bounds
MaxStudents == 2
MaxQuestions == 2
MaxEpochs == 2
MaxShift == 2

\* --------------------------------------------------------------- numerics
SCALE == 10^3

Max(a, b) == IF a >= b THEN a ELSE b
Min(a, b) == IF a <= b THEN a ELSE b
Abs(a) == IF a >= 0 THEN a ELSE -a

\* a / b rounded to the nearest integer, symmetric about zero (b > 0)
RoundDiv(a, b) ==
    IF a >= 0 THEN (a + b \div 2) \div b ELSE -(((-a) + b \div 2) \div b)

\* x * y of two fixed-point numbers
Mul(x, y) == RoundDiv(x * y, SCALE)

RECURSIVE ExpSeries(_, _, _)
ExpSeries(x, term, n) ==
    IF term = 0 THEN 0
    ELSE term + ExpSeries(x, RoundDiv(term * x, n * SCALE), n + 1)

RECURSIVE ExpPos(_)
ExpPos(x) ==
    IF x <= SCALE \div 2 THEN ExpSeries(x, SCALE, 1)
    ELSE Mul(ExpPos(x \div 2), ExpPos(x - (x \div 2)))

\* torch.exp
Exp(x) == IF x >= 0 THEN ExpPos(x) ELSE RoundDiv(SCALE * SCALE, ExpPos(-x))

\* torch.sigmoid: 1 / (1 + exp(-x))
Sigmoid(x) == RoundDiv(SCALE * SCALE, SCALE + Exp(-x))

RECURSIVE AtanhSeries(_, _, _)
AtanhSeries(z, pow, n) ==
    IF pow = 0 THEN 0
    ELSE RoundDiv(pow, n) + AtanhSeries(z, Mul(Mul(pow, z), z), n + 2)

Atanh(z) == AtanhSeries(z, z, 1)

LN2 == 2 * Atanh(RoundDiv(SCALE, 3))

\* torch.log on (0, 1]: ln y = 2 atanh((y - 1) / (y + 1)), after doubling
\* y into (1/2, 1]
RECURSIVE Log(_)
Log(y) ==
    IF 2 * y <= SCALE THEN Log(2 * y) - LN2
    ELSE 2 * Atanh(RoundDiv((y - SCALE) * SCALE, y + SCALE))

RECURSIVE IsqrtIter(_, _, _)
IsqrtIter(n, lo, hi) ==
    IF lo >= hi THEN lo
    ELSE LET mid == (lo + hi + 1) \div 2
         IN  IF mid * mid <= n THEN IsqrtIter(n, mid, hi)
             ELSE IsqrtIter(n, lo, mid - 1)

\* floor of the square root of n >= 0
Isqrt(n) == IsqrtIter(n, 0, Min(n, 46340))

RECURSIVE Pow(_, _)
Pow(b, e) == IF e = 0 THEN 1 ELSE b * Pow(b, e - 1)

\* ---------------------------------------------------------------- tensors
Zeros(n) == [i \in 0..(n - 1) |-> 0]
Size(v) == Cardinality(DOMAIN v)

\* the tensor f held as its table of values, each computed once
Tensor(f) == IF f = f THEN f ELSE f

RECURSIVE SumFn(_, _)
SumFn(f, S) ==
    IF S = {} THEN 0
    ELSE LET x == CHOOSE y \in S : TRUE IN f[x] + SumFn(f, S \ {x})

Sum(v) == SumFn(v, DOMAIN v)
Mean(v) == RoundDiv(Sum(v), Size(v))

\* the binary matrices of shape (n, m)
Matrices(n, m) == [0..(n - 1) -> [0..(m - 1) -> {0, 1}]]

n_students(a) == Size(a)
n_questions(a) == Size(a[0])

\* ------------------------------------------------------------- the models
ResponseModel(ns, nq) ==
    [class |-> "ResponseModel", skill |-> Zeros(ns), difficulty |-> Zeros(nq)]

ResponseModelWithCheater(ns, nq) ==
    [class |-> "ResponseModelWithCheater", skill |-> Zeros(ns),
     difficulty |-> Zeros(nq), cheater_logits |-> Zeros(ns)]

IsMixture(m) == m.class = "ResponseModelWithCheater"

\* model.parameters(), by name
parameters(m) ==
    IF IsMixture(m) THEN {"skill", "difficulty", "cheater_logits"}
    ELSE {"skill", "difficulty"}

MaxOf(v) == CHOOSE x \in {v[i] : i \in DOMAIN v} : \A i \in DOMAIN v : v[i] <= x

\* an independent probability per respondent in place of the joint distribution
softmaxIndependent(l) == [i \in DOMAIN l |-> Sigmoid(l[i])]

\* F.softmax over the only axis: exp(l - max) / sum exp(l - max)
softmax(l) ==
    LET mx == MaxOf(l)
        e == Tensor([i \in DOMAIN l |-> Exp(l[i] - mx)])
        tot == Sum(e)
    IN  [i \in DOMAIN l |-> RoundDiv(e[i] * SCALE, tot)]

HALF == SCALE \div 2

\* the gap taken with the wrong sign of the difficulty
answer_no_cheatSum(m, i, j) == Sigmoid(m.skill[i] + m.difficulty[j])

\* torch.sigmoid(skill[:, None] - difficulty[None, :]) at (i, j)
answer_no_cheat(m, i, j) == Sigmoid(m.skill[i] - m.difficulty[j])

\* 0.5 * sigmoid(skill - difficulty) + 0.5 * 1 at (i, j)
answer_cheat(m, i, j) == Mul(HALF, answer_no_cheat(m, i, j)) + Mul(HALF, SCALE)

\* the probs of the Bernoulli that forward() returns, shape (len skill, len difficulty)
forward(m) ==
    IF IsMixture(m)
    THEN LET cheater_prob == Tensor(softmax(m.cheater_logits))
         IN  [i \in DOMAIN m.skill |-> [j \in DOMAIN m.difficulty |->
                 Mul(cheater_prob[i], answer_cheat(m, i, j))
                 + Mul(SCALE - cheater_prob[i], answer_no_cheat(m, i, j))]]
    ELSE [i \in DOMAIN m.skill |-> [j \in DOMAIN m.difficulty |->
             answer_no_cheat(m, i, j)]]

\* -------------------------------------------------- Bernoulli(...).log_prob
\* the smallest probability the distribution keeps apart from 0 and from 1
EPS == 1

ClampProbs(p) == Max(EPS, Min(SCALE - EPS, p))

Broadcastable(a, b) == a = b \/ a = 1 \/ b = 1

\* whether the model's probs broadcast against the answers
CanBroadcast(m, a) ==
    /\ Broadcastable(Size(m.skill), n_students(a))
    /\ Broadcastable(Size(m.difficulty), n_questions(a))

Rows(m, a) == Max(Size(m.skill), n_students(a))
Cols(m, a) == Max(Size(m.difficulty), n_questions(a))

\* the index into an axis of size n that index k of the broadcast axis reads
At(k, n) == IF n = 1 THEN 0 ELSE k

Cells(m, a) == (0..(Rows(m, a) - 1)) \X (0..(Cols(m, a) - 1))

AnswerAt(a, c) == a[At(c[1], n_students(a))][At(c[2], n_questions(a))]
SkillAt(m, c) == At(c[1], Size(m.skill))
DifficultyAt(m, c) == At(c[2], Size(m.difficulty))

LogProbCell(p, x) ==
    IF x = 1 THEN Log(ClampProbs(p)) ELSE Log(SCALE - ClampProbs(p))

\* model().log_prob(answers), a function of the broadcast cells
log_prob(m, a) ==
    LET probs == Tensor(forward(m))
    IN  [c \in Cells(m, a) |->
            LogProbCell(probs[SkillAt(m, c)][DifficultyAt(m, c)], AnswerAt(a, c))]

\* -distribution.log_prob(answers).mean() + alpha * difficulty.mean() ** 2
Loss(m, a, al) ==
    LET lp == Tensor(log_prob(m, a))
        dm == Mean(m.difficulty)
    IN  -RoundDiv(Sum(lp), Rows(m, a) * Cols(m, a)) + Mul(al, Mul(dm, dm))

\* ------------------------------------------------------------ loss.backward
\* d log_prob / d probs at one cell; the clamp passes no gradient outside it
DLogProbDProb(p, x) ==
    IF p < EPS \/ p > SCALE - EPS THEN 0
    ELSE IF x = 1 THEN RoundDiv(SCALE * SCALE, p)
    ELSE -RoundDiv(SCALE * SCALE, SCALE - p)

\* the gradient of the loss with respect to every parameter, by name
Backward(m, a, al) ==
    LET probs == Tensor(forward(m))
        cp == Tensor(IF IsMixture(m) THEN softmax(m.cheater_logits)
                    ELSE Zeros(Size(m.skill)))
        cnt == Rows(m, a) * Cols(m, a)
        sg(c) == answer_no_cheat(m, SkillAt(m, c), DifficultyAt(m, c))
        dl == Tensor([c \in Cells(m, a) |->
                 DLogProbDProb(probs[SkillAt(m, c)][DifficultyAt(m, c)],
                               AnswerAt(a, c))])
        \* d probs / d (skill - difficulty)
        dgap == Tensor([c \in Cells(m, a) |->
                   IF IsMixture(m)
                   THEN Mul(Mul(sg(c), SCALE - sg(c)), SCALE - Mul(HALF, cp[SkillAt(m, c)]))
                   ELSE Mul(sg(c), SCALE - sg(c))])
        \* d probs / d cheater_prob = answer_cheat - answer_no_cheat
        dcp == Tensor([c \in Cells(m, a) |-> Mul(HALF, SCALE - sg(c))])
        lgap == Tensor([c \in Cells(m, a) |-> Mul(dl[c], dgap[c])])
        lcp == Tensor([c \in Cells(m, a) |-> Mul(dl[c], dcp[c])])
        dm == Mean(m.difficulty)
        gskill == Tensor([k \in DOMAIN m.skill |->
                     -RoundDiv(SumFn(lgap, {c \in Cells(m, a) : SkillAt(m, c) = k}), cnt)])
        gdiff == Tensor([k \in DOMAIN m.difficulty |->
                    RoundDiv(SumFn(lgap, {c \in Cells(m, a) : DifficultyAt(m, c) = k}), cnt)
                    + RoundDiv(2 * Mul(al, dm), Size(m.difficulty))])
        gcp == Tensor([k \in DOMAIN m.skill |->
                  -RoundDiv(SumFn(lcp, {c \in Cells(m, a) : SkillAt(m, c) = k}), cnt)])
        dot == Sum([k \in DOMAIN m.skill |-> Mul(gcp[k], cp[k])])
        glogit == Tensor([k \in DOMAIN m.skill |-> Mul(cp[k], gcp[k] - dot)])
    IN  IF IsMixture(m)
        THEN [skill |-> gskill, difficulty |-> gdiff, cheater_logits |-> glogit]
        ELSE [skill |-> gskill, difficulty |-> gdiff]

\* --------------------------------------------------------- torch.optim.Adam
\* the learning rate fit gives the optimizer
LR == 10

\* a new optimizer over the model's parameters: no step taken, zero moments.
\* exp_avg holds ten times the first moment and exp_avg_sq a thousand times
\* the second, which keeps the digits the decay factors would round away.
Adam(m, lr) ==
    [lr |-> lr, step |-> 0,
     exp_avg |-> [n \in parameters(m) |-> Zeros(Size(m[n]))],
     exp_avg_sq |-> [n \in parameters(m) |-> Zeros(Size(m[n]))]]

RECURSIVE Beta2Pow(_)
\* 0.999 ** t, six decimals
Beta2Pow(t) == IF t = 0 THEN SCALE * SCALE ELSE RoundDiv(Beta2Pow(t - 1) * 999, 1000)

ExpAvg(m10, g) == RoundDiv(9 * m10, 10) + g
ExpAvgSq(v, g) == v - RoundDiv(v, 1000) + g * g

\* lr * (exp_avg / bias1) / (sqrt(exp_avg_sq / bias2) + eps) at step t; eps is
\* below the resolution and decides only the case of an all-zero gradient
AdamUpdate(lr, m10, v, t) ==
    LET mhat == RoundDiv(m10 * Pow(10, t - 1), Pow(10, t) - Pow(9, t))
        vhat == RoundDiv(v * 1000, SCALE * SCALE - Beta2Pow(t))
        denom == Isqrt(vhat)
    IN  IF denom = 0 THEN 0 ELSE RoundDiv(lr * mhat, denom)

\* optimizer.step(): the optimizer after the step
OptimizerStep(opt, m, grad) ==
    [opt EXCEPT
       !.step = opt.step + 1,
       !.exp_avg = [n \in parameters(m) |-> [k \in DOMAIN m[n] |->
                      ExpAvg(opt.exp_avg[n][k], grad[n][k])]],
       !.exp_avg_sq = [n \in parameters(m) |-> [k \in DOMAIN m[n] |->
                         ExpAvgSq(opt.exp_avg_sq[n][k], grad[n][k])]]]

\* optimizer.step(): the parameters after the step
ParametersStep(opt, m, grad) ==
    LET nxt == OptimizerStep(opt, m, grad)
        upd(n) == [k \in DOMAIN m[n] |->
                     m[n][k] - AdamUpdate(opt.lr, nxt.exp_avg[n][k],
                                          nxt.exp_avg_sq[n][k], nxt.step)]
    IN  IF IsMixture(m)
        THEN [m EXCEPT !.skill = upd("skill"), !.difficulty = upd("difficulty"),
                       !.cheater_logits = upd("cheater_logits")]
        ELSE [m EXCEPT !.skill = upd("skill"), !.difficulty = upd("difficulty")]

\* ----------------------------------------------------------------- scorers
\* log_prob(answers).sum(axis=1): one total per row of the broadcast cells
RowSums(m, a) ==
    LET lp == Tensor(log_prob(m, a))
    IN  [i \in 0..(Rows(m, a) - 1) |->
            SumFn(lp, {c \in Cells(m, a) : c[1] = i})]

\* the greatest value taken for the least
argminGreatest(v) ==
    CHOOSE i \in DOMAIN v : \A k \in DOMAIN v : v[i] >= v[k]

\* numpy argmin: the first index holding the least value
argmin(v) ==
    CHOOSE i \in DOMAIN v :
        /\ \A k \in DOMAIN v : v[i] <= v[k]
        /\ \A k \in DOMAIN v : k < i => v[k] > v[i]

\* the least value taken for the greatest
argmaxLeast(v) ==
    CHOOSE i \in DOMAIN v : \A k \in DOMAIN v : v[i] <= v[k]

\* numpy argmax: the first index holding the greatest value
argmax(v) ==
    CHOOSE i \in DOMAIN v :
        /\ \A k \in DOMAIN v : v[i] >= v[k]
        /\ \A k \in DOMAIN v : k < i => v[k] < v[i]

\* ------------------------------------------------------------------ state
VARIABLES
    answers,        \* the response matrix the caller holds
    model,          \* the model object: its class and parameter vectors
    pc,             \* where the caller is: constructed, loop, step, fitted, error
    epochs,         \* fit's argument
    alpha,          \* fit's argument
    learning_rate,  \* the learning rate the caller configured for the fit
    it,             \* how many iterations of fit's loop have completed
    losses,         \* fit's list of recorded losses
    optimizer,      \* fit's optimizer
    prediction,     \* what the last scorer produced
    hist,           \* history: the models this fit has held, oldest first
    prior,          \* history: whether a fit returned before this model was built
    offset          \* history: the translation applied to the parameters

vars == <<answers, model, pc, epochs, alpha, learning_rate, it, losses,
          optimizer, prediction, hist, prior, offset>>

fitvars == <<epochs, alpha, learning_rate, it, losses, optimizer, hist>>

NoOptimizer ==
    [lr |-> 0, step |-> 0, exp_avg |-> [n \in {} |-> 0], exp_avg_sq |-> [n \in {} |-> 0]]

NoPrediction == [by |-> "none", scores |-> [n \in {} |-> 0], predicted_cheater |-> -1]

\* the values alpha takes: no penalty, and fit's default
Alphas == {0, SCALE}

\* the response matrices a caller may hold
AnswerSets ==
    UNION {Matrices(n, m) : n \in 1..MaxStudents, m \in 1..MaxQuestions}

NewModel(mixture, ns, nq) ==
    IF mixture THEN ResponseModelWithCheater(ns, nq) ELSE ResponseModel(ns, nq)

Init ==
    /\ answers \in AnswerSets
    /\ \E mixture \in BOOLEAN :
         model = NewModel(mixture, n_students(answers), n_questions(answers))
    /\ pc = "constructed"
    /\ epochs = 0
    /\ alpha = 0
    /\ learning_rate = LR
    /\ it = 0
    /\ losses = <<>>
    /\ optimizer = NoOptimizer
    /\ prediction = NoPrediction
    /\ hist = <<>>
    /\ prior = FALSE
    /\ offset = 0

\* model = ResponseModel(...) or ResponseModelWithCheater(...): a new trial
Construct(mixture, ns, nq) ==
    /\ pc \in {"constructed", "fitted", "error"}
    /\ model' = NewModel(mixture, ns, nq)
    /\ pc' = "constructed"
    /\ prediction' = NoPrediction
    /\ prior' = (prior \/ pc = "fitted")
    /\ UNCHANGED <<answers, fitvars, offset>>

\* fit with an optimizer that outlives the call: it is created once and its
\* moments and step count carry over to the next fit of a like model
FitCallSharedOptimizer(E, al, rate) ==
    /\ pc = "constructed"
    /\ epochs' = E
    /\ alpha' = al
    /\ learning_rate' = rate
    /\ optimizer' = IF DOMAIN optimizer.exp_avg = parameters(model)
                    THEN optimizer
                    ELSE Adam(model, LR)
    /\ losses' = <<>>
    /\ it' = 0
    /\ hist' = <<model>>
    /\ pc' = "loop"
    /\ UNCHANGED <<answers, model, prediction, prior, offset>>

\* fit(model, answers, epochs, alpha) up to its loop
FitCall(E, al, rate) ==
    /\ pc = "constructed"
    /\ epochs' = E
    /\ alpha' = al
    /\ learning_rate' = rate
    /\ optimizer' = Adam(model, LR)
    /\ losses' = <<>>
    /\ it' = 0
    /\ hist' = <<model>>
    /\ pc' = "loop"
    /\ UNCHANGED <<answers, model, prediction, prior, offset>>

\* one iteration too many
HasNextInclusive == it <= epochs

\* for _ in range(epochs): whether another iteration follows
HasNext == it < epochs

\* the loss taken after the step instead of before it
EpochLossAfterStep ==
    /\ pc = "loop"
    /\ it < epochs
    /\ losses' = Append(losses,
                   Loss(ParametersStep(optimizer, model, Backward(model, answers, alpha)),
                        answers, alpha))
    /\ pc' = "step"
    /\ UNCHANGED <<answers, model, epochs, alpha, learning_rate, it, optimizer,
                   prediction, hist, prior, offset>>

\* zero_grad, the forward pass, the loss, and its recording; log_prob raises
\* when the model's probs do not broadcast against the answers
EpochLoss ==
    /\ pc = "loop"
    /\ HasNext
    /\ IF CanBroadcast(model, answers)
       THEN /\ losses' = Append(losses, Loss(model, answers, alpha))
            /\ pc' = "step"
       ELSE /\ losses' = losses
            /\ pc' = "error"
    /\ UNCHANGED <<answers, model, epochs, alpha, learning_rate, it, optimizer,
                   prediction, hist, prior, offset>>

\* loss.backward() and optimizer.step()
EpochStep ==
    /\ pc = "step"
    /\ LET grad == Backward(model, answers, alpha)
       IN  /\ model' = ParametersStep(optimizer, model, grad)
           /\ optimizer' = OptimizerStep(optimizer, model, grad)
    /\ it' = it + 1
    /\ hist' = Append(hist, model')
    /\ pc' = "loop"
    /\ UNCHANGED <<answers, epochs, alpha, learning_rate, losses, prediction,
                   prior, offset>>

\* return model, losses
FitReturn ==
    /\ pc = "loop"
    /\ ~HasNext
    /\ pc' = "fitted"
    /\ UNCHANGED <<answers, model, fitvars, prediction, prior, offset>>

\* a scorer that centres the skills in place while it scores
ScoreBaselineInPlace ==
    /\ pc = "fitted"
    /\ ~IsMixture(model)
    /\ prediction' =
         LET log_probs == RowSums(model, answers)
         IN  [by |-> "baseline", scores |-> log_probs,
              predicted_cheater |-> argmin(log_probs)]
    /\ model' = [model EXCEPT !.skill =
                   [i \in DOMAIN model.skill |-> model.skill[i] - Mean(model.skill)]]
    /\ UNCHANGED <<answers, pc, fitvars, prior, offset>>

\* log_probs = model().log_prob(answers).sum(axis=1); log_probs.argmin()
ScoreBaseline ==
    /\ pc = "fitted"
    /\ ~IsMixture(model)
    /\ IF CanBroadcast(model, answers)
       THEN /\ prediction' =
                 LET log_probs == RowSums(model, answers)
                 IN  [by |-> "baseline", scores |-> log_probs,
                      predicted_cheater |-> argmin(log_probs)]
            /\ pc' = pc
       ELSE /\ prediction' = prediction
            /\ pc' = "error"
    /\ UNCHANGED <<answers, model, fitvars, prior, offset>>

\* cheater_probs = F.softmax(model.cheater_logits); cheater_probs.argmax()
ScoreMixture ==
    /\ pc = "fitted"
    /\ IsMixture(model)
    /\ prediction' =
         LET cheater_probs == softmax(model.cheater_logits)
         IN  [by |-> "mixture", scores |-> cheater_probs,
              predicted_cheater |-> argmax(cheater_probs)]
    /\ UNCHANGED <<answers, model, pc, fitvars, prior, offset>>

\* the notebook's callers: the model takes its shape from the answers, and
\* the learning rate is the one fit uses
Next ==
    \/ \E mixture \in BOOLEAN :
         Construct(mixture, n_students(answers), n_questions(answers))
    \/ \E E \in 0..MaxEpochs, al \in Alphas : FitCall(E, al, LR)
    \/ EpochLoss
    \/ EpochStep
    \/ FitReturn
    \/ ScoreBaseline
    \/ ScoreMixture

Spec == Init /\ [][Next]_vars

\* ---------------------------------------------------- any caller of the core
\* the learning rates a caller may want
LearningRates == {LR, 10 * LR}

\* a caller that builds the model with any shape and configures any rate
NextCaller ==
    \/ \E mixture \in BOOLEAN, ns \in 1..MaxStudents, nq \in 1..MaxQuestions :
         Construct(mixture, ns, nq)
    \/ \E E \in 0..MaxEpochs, al \in Alphas, rate \in LearningRates :
         FitCall(E, al, rate)
    \/ EpochLoss
    \/ EpochStep
    \/ FitReturn
    \/ ScoreBaseline
    \/ ScoreMixture

SpecCaller == Init /\ [][NextCaller]_vars

\* ------------------------------------------- the forward pass on any model
\* the values a parameter of an arbitrary model takes
SkillValues == {-SCALE, 0, 2 * SCALE}
LogitValues == {0, SCALE}

Shifts == {k * HALF : k \in (-MaxShift)..MaxShift} \ {0}

\* every skill and every difficulty of m moved by c
Translated(m, c) ==
    [m EXCEPT !.skill = [i \in DOMAIN m.skill |-> m.skill[i] + c],
              !.difficulty = [j \in DOMAIN m.difficulty |-> m.difficulty[j] + c]]

InitPure ==
    /\ \E n \in 1..MaxStudents, m \in 1..MaxQuestions :
         /\ answers = [i \in 0..(n - 1) |-> [j \in 0..(m - 1) |-> 1]]
         /\ \E s \in [0..(n - 1) -> SkillValues], d \in [0..(m - 1) -> SkillValues] :
              \/ model = [ResponseModel(n, m) EXCEPT !.skill = s, !.difficulty = d]
              \/ \E l \in [0..(n - 1) -> LogitValues] :
                   model = [ResponseModelWithCheater(n, m) EXCEPT
                              !.skill = s, !.difficulty = d, !.cheater_logits = l]
    /\ pc = "fitted"
    /\ epochs = 0
    /\ alpha = 0
    /\ learning_rate = LR
    /\ it = 0
    /\ losses = <<>>
    /\ optimizer = NoOptimizer
    /\ prediction = NoPrediction
    /\ hist = <<>>
    /\ prior = FALSE
    /\ offset = 0

\* add c to every skill and every difficulty
Translate(c) ==
    /\ Abs(offset + c) <= MaxShift * HALF
    /\ model' = Translated(model, c)
    /\ offset' = offset + c
    /\ UNCHANGED <<answers, pc, fitvars, prediction, prior>>

NextPure == \E c \in Shifts : Translate(c)

SpecPure == InitPure /\ [][NextPure]_vars

\* ------------------------------------------------------------------ claims
InFit == pc \in {"loop", "step", "fitted"}
Students == 0..(n_students(answers) - 1)

\* fit has returned and no scorer has run since
Returned == pc = "fitted" /\ prediction.by = "none"

\* C1: a fit performs exactly `epochs` optimizer steps and returns `epochs`
\* recorded losses; while it runs, the steps taken equal the iterations
\* completed, never exceed `epochs`, and one loss is recorded per iteration
\* entered; it returns only when the step count equals `epochs`.
C1_ExactlyEpochsSteps ==
    InFit =>
      /\ optimizer.step = it
      /\ it <= epochs
      /\ Len(losses) = IF pc = "step" THEN it + 1 ELSE it
      /\ pc = "fitted" => (optimizer.step = epochs /\ Len(losses) = epochs)

C1_Witness ==
    /\ pc = "fitted"
    /\ epochs = MaxEpochs
    /\ optimizer.step = MaxEpochs
    /\ Len(losses) = MaxEpochs
    /\ model.skill # Zeros(n_students(answers))

\* C2: after the baseline scorer, the predicted cheater is a respondent
\* index whose row total of log-probabilities is the least of all rows.
C2_BaselineArgmin ==
    prediction.by = "baseline" =>
      LET S == Tensor(RowSums(model, answers))
      IN  /\ prediction.predicted_cheater \in Students
          /\ prediction.scores = S
          /\ \A k \in Students : S[prediction.predicted_cheater] <= S[k]

C2_Witness ==
    /\ prediction.by = "baseline"
    /\ epochs >= 1
    /\ prediction.predicted_cheater # 0
    /\ \E k \in Students :
         prediction.scores[k] > prediction.scores[prediction.predicted_cheater]

\* C3: after the mixture scorer, the predicted cheater is a respondent index
\* whose cheater_prob, the softmax of the fitted cheater_logits alone, is the
\* greatest of all respondents.
C3_MixtureArgmax ==
    prediction.by = "mixture" =>
      LET cheater_prob == Tensor(softmax(model.cheater_logits))
      IN  /\ prediction.predicted_cheater \in Students
          /\ \A k \in Students :
               cheater_prob[prediction.predicted_cheater] >= cheater_prob[k]

C3_Witness ==
    /\ prediction.by = "mixture"
    /\ epochs >= 1
    /\ prediction.predicted_cheater # 0
    /\ \E k \in Students :
         prediction.scores[k] < prediction.scores[prediction.predicted_cheater]

\* the amounts by which a logit is raised
Raises == {SCALE \div 10, SCALE}

Raised(l, i, by) == [l EXCEPT ![i] = l[i] + by]

\* cheater_prob is a distribution: positive entries that sum to 1, up to the
\* rounding of one entry each
IsDistribution(p) ==
    LET cp == Tensor(p)
    IN  /\ \A i \in DOMAIN cp : cp[i] > 0
        /\ Abs(Sum(cp) - SCALE) <= Size(cp)

\* raising logit i lowers every other respondent's cheater_prob and, where
\* own is set, raises respondent i's
RaisingMoves(l, own) ==
    LET before == Tensor(softmax(l))
    IN  \A i \in DOMAIN l, by \in Raises :
          LET after == Tensor(softmax(Raised(l, i, by)))
          IN  /\ own => after[i] > before[i]
              /\ \A k \in DOMAIN l \ {i} : after[k] < before[k]

\* C4 as claimed: in every state of a mixture model cheater_prob is a
\* distribution, and raising one logit raises that respondent's cheater_prob
\* and lowers every other's.
C4_Original ==
    IsMixture(model) =>
      /\ IsDistribution(softmax(model.cheater_logits))
      /\ RaisingMoves(model.cheater_logits, TRUE)

\* C4 amended: in every state of a mixture model cheater_prob is a
\* distribution, and raising one logit lowers every other respondent's
\* cheater_prob; with two respondents or more it raises that respondent's own
\* (a single respondent's cheater_prob is 1 whatever the logit).
C4_JointDistribution ==
    IsMixture(model) =>
      /\ IsDistribution(softmax(model.cheater_logits))
      /\ RaisingMoves(model.cheater_logits, n_students(answers) >= 2)

C4_Witness ==
    /\ IsMixture(model)
    /\ n_students(answers) >= 2
    /\ pc = "fitted"
    /\ epochs >= 1
    /\ \E i, k \in Students : model.cheater_logits[i] # model.cheater_logits[k]

\* C5: adding one constant to every skill and every difficulty leaves every
\* probability of the forward pass unchanged, in both models.
C5_TranslationInvariant ==
    forward(model) = forward(Translated(model, -offset))

C5_Witness ==
    /\ offset # 0
    /\ IsMixture(model)
    /\ \E i \in DOMAIN model.skill, j \in DOMAIN model.difficulty :
         model.skill[i] - model.difficulty[j] # 0
    /\ \E i, k \in DOMAIN model.skill : model.cheater_logits[i] # model.cheater_logits[k]

\* C6 as claimed: during and after a fit, the learning rate of the optimizer,
\* the epoch count and alpha are the ones the caller configured for the fit.
C6_CallerSetsHyperparameters ==
    InFit => optimizer.lr = learning_rate

\* whether the parameter vectors do not have the lengths of the matrix
ShapeMismatch ==
    \/ Size(model.skill) # n_students(answers)
    \/ Size(model.difficulty) # n_questions(answers)

\* C7 as claimed: with a shape mismatch a fit fails before any optimizer
\* step, so no fit of a mismatched model has taken a step or moved a
\* parameter.
C7_ShapeMismatchRejected ==
    (ShapeMismatch /\ InFit) =>
      /\ optimizer.step = 0
      /\ model.skill = Zeros(Size(model.skill))
      /\ model.difficulty = Zeros(Size(model.difficulty))

\* the lengths of the parameter vectors are those of the matrix
LengthsKept(m) ==
    /\ Size(m.skill) = n_students(answers)
    /\ Size(m.difficulty) = n_questions(answers)
    /\ IsMixture(m) => Size(m.cheater_logits) = n_students(answers)

\* C8: no step changes the answers; the parameters change only in the step
\* of an epoch of fit (or when a new model is constructed), so neither
\* scorer nor any other part of fit changes them; and the parameter vectors
\* keep the lengths (N, M) throughout.
C8_Frame ==
    [][/\ answers' = answers
       /\ LengthsKept(model')
       /\ model' # model => (pc = "step" \/ pc' = "constructed")
       /\ pc = "step" => model'.class = model.class]_vars

C8_Witness ==
    /\ prediction.by # "none"
    /\ epochs >= 1
    /\ model.skill # Zeros(n_students(answers))

RECURSIVE FitFrom(_, _, _, _, _)
\* the model and the losses after k more epochs from model m, optimizer opt
\* and losses ls
FitFrom(m, opt, ls, k, al) ==
    IF k = 0 THEN [model |-> m, losses |-> ls]
    ELSE LET grad == Backward(m, answers, al)
         IN  FitFrom(ParametersStep(opt, m, grad), OptimizerStep(opt, m, grad),
                     Append(ls, Loss(m, answers, al)), k - 1, al)

\* what a fit returns when nothing but its inputs decides it: E epochs from
\* the all-zero model of the class and a new optimizer
FreshFit(mixture, E, al) ==
    LET m0 == NewModel(mixture, n_students(answers), n_questions(answers))
    IN  FitFrom(m0, Adam(m0, LR), <<>>, E, al)

\* C9: what a fit of a new model returns (parameters and losses) is decided
\* by the class, the answers, epochs and alpha alone, so two such fits with
\* the same inputs return the same, whatever fits returned before them; the
\* optimizer of an earlier fit has no part in it.
C9_FitsAgree ==
    Returned =>
      [model |-> model, losses |-> losses] = FreshFit(IsMixture(model), epochs, alpha)

C9_Witness ==
    /\ Returned
    /\ prior
    /\ epochs = MaxEpochs
    /\ model.skill # Zeros(n_students(answers))
    /\ losses[1] # losses[Len(losses)]

\* C10: in each epoch the loss is recorded before the step: once recorded,
\* the last loss is the objective at the parameters the step is about to
\* change.  When fit returns, the k-th recorded loss is the objective at the
\* parameters after k - 1 steps of this fit, the first at the all-zero
\* parameters, and the returned parameters, the last of the models held,
\* have no recorded loss: the models number one more than the losses.
C10_LossBeforeStep ==
    InFit =>
      /\ Len(hist) = it + 1
      /\ hist[Len(hist)] = model
      /\ hist[1].skill = Zeros(n_students(answers))
      /\ hist[1].difficulty = Zeros(n_questions(answers))
      /\ Len(losses) = IF pc = "step" THEN Len(hist) ELSE Len(hist) - 1
      /\ pc = "step" => losses[Len(losses)] = Loss(model, answers, alpha)
      /\ Returned => \A k \in 1..Len(losses) : losses[k] = Loss(hist[k], answers, alpha)

C10_Witness ==
    /\ pc = "fitted"
    /\ epochs = MaxEpochs
    /\ losses[1] # losses[Len(losses)]
    /\ Loss(model, answers, alpha) # losses[Len(losses)]
=============================================================================
